---- MODULE Spec2Model ----
(***************************************************************************)
(* A model of the per-guild playback orchestrator of CriticallyStupidBot:  *)
(* the session registry (GuildAudioCommandHandlers), the command           *)
(* serializer (GuildAudioCommandHandler.addCommandToQueue), the slash      *)
(* commands of src/src/commands/audio.ts and the playback state machine    *)
(* of src/src/audio/channel-audio-player.ts.                               *)
(*                                                                         *)
(* The program runs on one JavaScript event loop.  A step of the model is  *)
(* one run-to-completion segment: from the resumption of a task (a command *)
(* arriving, a network call returning, a timer or a player/connection      *)
(* event firing) to the next await that really leaves the event loop turn  *)
(* (the voice connection becoming ready, a yt-dlp resolution).  An await   *)
(* of an already completed promise does not end the segment.               *)
(*                                                                         *)
(* The voice library (@discordjs/voice) is the environment: the player     *)
(* goes Buffering on play(), Playing once the stream is readable, Idle     *)
(* when the track ends or after stop() was requested; pause()/unpause()    *)
(* switch Playing/Paused at once; every status change calls the            *)
(* registered stateChange listener synchronously.                          *)
(***************************************************************************)
EXTENDS Integers, Sequences, FiniteSets, TLC

\* ------------------------------------------------------------------ bounds
MaxCommands == 2      \* slash commands issued in one behaviour of Spec
MaxSerial == 3        \* slash commands issued in one behaviour of SpecSerial, SpecFifo
MaxHandlers == 2      \* GuildAudioCommandHandler objects ever constructed
MaxPlaylistLen == 2   \* members of an enqueued playlist
MaxMembers == 3       \* members of a playlist in SpecList
MaxPending == 2       \* resolutions (createFromUrl) in flight inside reconciliations

Guilds == {"g1", "g2"}
Kinds == {"play", "stop", "skip", "skiplist", "pause", "resume", "playing", "leave"}
\* the url option of play: fails isValidUrl / fails isYoutubeUrl / a video / a playlist
Urls == {"invalid", "other", "track", "list"}

NoHandler == 0
NoItem == [id |-> 0, n |-> 0]
NoChild == [id |-> 0, idx |-> 0]

VARIABLES
    GuildAudioCommandHandlers,  \* guild -> handler (NoHandler when absent)
    handlers,                   \* every handler constructed so far, with its player
    commands,                   \* every slash command issued so far
    pending                     \* resolutions awaited inside checkAndUpdatePlayerState

vars == <<GuildAudioCommandHandlers, handlers, commands, pending>>

\* The whole program state as one value, so that the handlers' code can be
\* written as functions from state to state and composed as the code calls them.
World ==
    [reg |-> GuildAudioCommandHandlers, hs |-> handlers, cs |-> commands,
     ks |-> pending, over |-> FALSE]

\* A step takes effect only when it stayed inside the bounds.  (The state the
\* step computed is bound by \E so that it is computed once.)
Commit(w) ==
    \E v \in {w} :
        /\ ~v.over
        /\ GuildAudioCommandHandlers' = v.reg
        /\ handlers' = v.hs
        /\ commands' = v.cs
        /\ pending' = v.ks

\* A new GuildAudioCommandHandler with its ChannelAudioPlayer: the fields of both
\* classes, the player's and the connection's status, and history fields
\* (submitted .. refused) that record what happened and steer nothing.
\* currentTimeout is the kind of the timeout the field holds and timeoutId its
\* handle; timers are the timeouts the runtime has scheduled for this player
\* and neither cancelled nor fired.
NewHandler(g) ==
    [guildId |-> g, commandQueue |-> <<>>, isCommandRunning |-> FALSE,
     playQueue |-> <<>>, playlistIndex |-> 0, currentItem |-> NoItem,
     currentItemChild |-> NoChild, nextItemChild |-> NoChild,
     currentTimeout |-> "none", timeoutId |-> 0, timers |-> {},
     status |-> "Idle", stopping |-> FALSE, conn |-> "ready",
     submitted |-> <<>>, started |-> <<>>, enqueued |-> <<>>, becameCurrent |-> <<>>,
     stopDone |-> FALSE, skipPre |-> FALSE, skippedList |-> 0,
     errored |-> FALSE, failed |-> NoChild, resumed |-> FALSE, notices |-> 0,
     struck |-> FALSE, rearmed |-> FALSE, refused |-> FALSE]

\* A slash command: q is the handler whose commandQueue received its closure,
\* target the handler its closure got from getGuildAudioCommandHandler; waited
\* records that the closure was submitted while another one was running, threw
\* that it ended by throwing, joinFailed that the connection it waited for did
\* not become ready.
NewCommand(kind, g, url, w) ==
    [kind |-> kind, guildId |-> g, url |-> url, pc |-> "new",
     q |-> NoHandler, target |-> NoHandler, got |-> NoHandler, racedWith |-> 0,
     hsBefore |-> Len(w.hs), regBefore |-> w.reg[g],
     waited |-> FALSE, threw |-> FALSE, joinFailed |-> FALSE]

isPlaylist(item) == item.n > 0
playlistItemCount(item) == item.n

\* ------------------------------------------------ ChannelAudioPlayer: timers
clearInactivityTimeout(w, h) ==
    IF w.hs[h].currentTimeout = "none"
    THEN w
    ELSE [w EXCEPT !.hs[h].timers = {t \in @ : t.id # w.hs[h].timeoutId},
                   !.hs[h].currentTimeout = "none",
                   !.hs[h].timeoutId = 0]

\* setTimeout: a handle no scheduled timeout of the player has.
NewTimeoutId(timers) ==
    CHOOSE i \in 1..(Cardinality(timers) + 1) : \A t \in timers : t.id # i

\* setInactivityTimeout without its leading clearInactivityTimeout.  (rearmed
\* records that a timeout was armed while the field held an earlier one.)
setInactivityTimeout_NoClear(w, h, type) ==
    LET w2 == IF type = "idle"
              THEN [w EXCEPT !.hs[h].currentItem = NoItem,
                             !.hs[h].currentItemChild = NoChild,
                             !.hs[h].playlistIndex = 0]
              ELSE w
        id == NewTimeoutId(w2.hs[h].timers)
    IN [w2 EXCEPT !.hs[h].currentTimeout = type,
                  !.hs[h].timeoutId = id,
                  !.hs[h].timers = @ \cup {[id |-> id, type |-> type]},
                  !.hs[h].rearmed = @ \/ w.hs[h].currentTimeout # "none"]

setInactivityTimeout(w, h, type) ==
    LET w1 == clearInactivityTimeout(w, h)
        w2 == IF type = "idle"
              THEN [w1 EXCEPT !.hs[h].currentItem = NoItem,
                              !.hs[h].currentItemChild = NoChild,
                              !.hs[h].playlistIndex = 0]
              ELSE w1
        id == NewTimeoutId(w2.hs[h].timers)
    IN [w2 EXCEPT !.hs[h].currentTimeout = type,
                  !.hs[h].timeoutId = id,
                  !.hs[h].timers = @ \cup {[id |-> id, type |-> type]},
                  !.hs[h].rearmed = @ \/ w.hs[h].currentTimeout # "none"]

\* The condition shared by checkAndUpdatePlayerState, handleStatusChange and skip:
\* nothing queued and no unplayed member of a current playlist.
NothingLeft(p) ==
    /\ Len(p.playQueue) = 0
    /\ \/ p.currentItem = NoItem
       \/ ~isPlaylist(p.currentItem)
       \/ p.playlistIndex >= playlistItemCount(p.currentItem)

\* handleStatusChange without the clearInactivityTimeout of the Playing case.
handleStatusChange_PlayingKeepsTimer(w, h, status) ==
    CASE status = "Idle" ->
            IF NothingLeft(w.hs[h])
            THEN setInactivityTimeout(w, h, "idle")
            ELSE clearInactivityTimeout(w, h)
      [] status = "Paused" -> setInactivityTimeout(w, h, "pause")
      [] status = "Playing" -> w
      [] OTHER -> clearInactivityTimeout(w, h)

\* handleStatusChange whose default case arms the idle timeout.
handleStatusChange_DefaultArmsIdle(w, h, status) ==
    CASE status = "Idle" ->
            IF NothingLeft(w.hs[h])
            THEN setInactivityTimeout(w, h, "idle")
            ELSE clearInactivityTimeout(w, h)
      [] status = "Paused" -> setInactivityTimeout(w, h, "pause")
      [] status = "Playing" -> clearInactivityTimeout(w, h)
      [] OTHER -> setInactivityTimeout(w, h, "idle")

handleStatusChange(w, h, status) ==
    CASE status = "Idle" ->
            IF NothingLeft(w.hs[h])
            THEN setInactivityTimeout(w, h, "idle")
            ELSE clearInactivityTimeout(w, h)
      [] status = "Paused" -> setInactivityTimeout(w, h, "pause")
      [] status = "Playing" -> clearInactivityTimeout(w, h)
      [] OTHER -> clearInactivityTimeout(w, h)

\* ------------------------------------------------ the player of the library
\* AudioPlayer.stop(): nothing when Idle, otherwise the player will report Idle.
playerStop(w, h) ==
    IF w.hs[h].status = "Idle" THEN w ELSE [w EXCEPT !.hs[h].stopping = TRUE]

Suspend(w, k) ==
    [w EXCEPT !.ks = @ \cup {k}, !.over = @ \/ Cardinality(w.ks \cup {k}) > MaxPending]

\* playAudio: stops a playing or paused player, then player.play(resource).  The
\* player turns Buffering and calls onAudioStatusChange at once, which clears the
\* timer (handleStatusChange, default case) and whose checkAndUpdatePlayerState
\* passes every test without acting, the status being Buffering.
playAudio(w, h) ==
    LET w1 == IF w.hs[h].status \in {"Playing", "Paused"} THEN playerStop(w, h) ELSE w
        w2 == [w1 EXCEPT !.hs[h].status = "Buffering", !.hs[h].stopping = FALSE]
    IN handleStatusChange(w2, h, "Buffering")

\* The await of the next member's prefetch (lines 203-206 and 221-224).
Prefetch(w, h, o, idx) ==
    Suspend(w, [h |-> h, at |-> "prefetch", owner |-> o,
                child |-> [id |-> w.hs[h].currentItem.id, idx |-> idx]])

\* o is the command whose closure awaits this reconciliation, 0 when an event
\* handler started it.
checkAndUpdatePlayerState(w, h, o) ==
    LET p == w.hs[h] IN
    IF NothingLeft(p) THEN w
    ELSE IF p.status \in {"Playing", "Paused"} THEN w
    ELSE IF p.conn # "ready" THEN w
    ELSE IF p.status # "Idle" THEN w
    ELSE
      LET inList == p.currentItem # NoItem /\ isPlaylist(p.currentItem)
          idx == IF inList THEN p.playlistIndex + 1 ELSE p.playlistIndex
          w1 == [w EXCEPT !.hs[h].playlistIndex = idx]
      IN
      IF inList /\ idx < p.currentItem.n
      THEN IF p.nextItemChild # NoChild
           THEN LET w2 == [w1 EXCEPT !.hs[h].currentItemChild = p.nextItemChild,
                                     !.hs[h].nextItemChild = NoChild]
                    w3 == playAudio(w2, h)
                IN IF idx + 1 < p.currentItem.n THEN Prefetch(w3, h, o, idx + 1) ELSE w3
           ELSE Suspend(w1, [h |-> h, at |-> "child", owner |-> o,
                             child |-> [id |-> p.currentItem.id, idx |-> idx]])
      ELSE IF Len(p.playQueue) = 0 THEN w1
      ELSE
        LET nextItem == Head(p.playQueue)
            w2 == [w1 EXCEPT !.hs[h].playQueue = Tail(@),
                             !.hs[h].currentItem = nextItem,
                             !.hs[h].playlistIndex = 0,
                             !.hs[h].becameCurrent = Append(@, nextItem.id)]
        IN IF isPlaylist(nextItem)
           THEN Suspend(w2, [h |-> h, at |-> "first", owner |-> o,
                             child |-> [id |-> nextItem.id, idx |-> 0]])
           ELSE playAudio([w2 EXCEPT !.hs[h].currentItemChild = NoChild], h)

onAudioStatusChange(w, h, status) ==
    checkAndUpdatePlayerState(handleStatusChange(w, h, status), h, 0)

\* ------------------------------------------ ChannelAudioPlayer: the commands
stop(w, h) ==
    IF w.hs[h].status = "Idle" THEN w
    ELSE playerStop([w EXCEPT !.hs[h].playQueue = <<>>,
                              !.hs[h].currentItem = NoItem,
                              !.hs[h].currentItemChild = NoChild,
                              !.hs[h].nextItemChild = NoChild,
                              !.hs[h].playlistIndex = 0], h)

\* skip whose group request takes no account of the current item: it always
\* passes the early return and moves playlistIndex past a playlist's end.
skip_GroupIgnoresItem(w, h, skipItemChild) ==
    LET p == w.hs[h] IN
    IF /\ skipItemChild
       /\ Len(p.playQueue) = 0
       /\ \/ p.currentItem = NoItem
          \/ ~isPlaylist(p.currentItem)
          \/ p.playlistIndex >= playlistItemCount(p.currentItem)
    THEN w
    ELSE LET w1 == IF ~skipItemChild
                   THEN [w EXCEPT !.hs[h].currentItem = NoItem,
                                  !.hs[h].nextItemChild = NoChild]
                   ELSE w
         IN playerStop(w1, h)

skip(w, h, skipItemChild) ==
    LET p == w.hs[h] IN
    IF /\ Len(p.playQueue) = 0
       /\ \/ skipItemChild = FALSE
          \/ p.currentItem = NoItem
          \/ ~isPlaylist(p.currentItem)
          \/ p.playlistIndex >= playlistItemCount(p.currentItem)
    THEN w
    ELSE LET w1 == IF ~skipItemChild
                   THEN [w EXCEPT !.hs[h].playlistIndex =
                                      IF p.currentItem # NoItem /\ isPlaylist(p.currentItem)
                                      THEN playlistItemCount(p.currentItem) + 1 ELSE 0,
                                  !.hs[h].nextItemChild = NoChild]
                   ELSE w
         IN playerStop(w1, h)

\* player.pause() turns a Playing player Paused and calls onAudioStatusChange.
\* (refused records the notice that there is nothing to pause or to resume.)
pause(w, h) ==
    IF w.hs[h].status # "Playing" THEN [w EXCEPT !.hs[h].refused = TRUE]
    ELSE onAudioStatusChange([w EXCEPT !.hs[h].status = "Paused"], h, "Paused")

\* player.unpause() turns a Paused player Playing and calls onAudioStatusChange.
\* resume without its test of the status: the player is told to play.
resume_Unguarded(w, h) ==
    onAudioStatusChange([w EXCEPT !.hs[h].status = "Playing"], h, "Playing")

resume(w, h) ==
    IF w.hs[h].status # "Paused" THEN [w EXCEPT !.hs[h].refused = TRUE]
    ELSE onAudioStatusChange([w EXCEPT !.hs[h].status = "Playing"], h, "Playing")

\* destroy: connection.disconnect() and connection.destroy() each call
\* onVoiceStatusChange at once, hence onCloseConnection again: that inner call
\* finds the connection already down, empties the queue and deletes the guild's
\* registry entry; its checkAndUpdatePlayerState finds the connection not ready.
destroy(w, h) ==
    LET p == w.hs[h]
        w1 == clearInactivityTimeout(w, h)
        w2 == IF p.status \in {"Playing", "Paused"} THEN playerStop(w1, h) ELSE w1
        w3 == IF p.conn \notin {"disconnected", "destroyed"}
              THEN [w2 EXCEPT !.hs[h].conn = "destroyed", !.reg[p.guildId] = NoHandler]
              ELSE w2
    IN [w3 EXCEPT !.hs[h].playQueue = <<>>]

\* onCloseConnection that empties the registry instead of deleting one guild.
onCloseConnection_ClearsAll(w, h) ==
    LET w1 == destroy(w, h)
    IN [w1 EXCEPT !.reg = [g \in Guilds |-> NoHandler]]

onCloseConnection(w, h) ==
    LET w1 == destroy(w, h)
    IN [w1 EXCEPT !.reg[w.hs[h].guildId] = NoHandler]

\* The callback of the inactivity timeout: the notice, then the close callback.
onInactivityTimeout_NoClose(w, h) ==
    clearInactivityTimeout([w EXCEPT !.hs[h].notices = @ + 1], h)

onInactivityTimeout(w, h) ==
    onCloseConnection([w EXCEPT !.hs[h].notices = @ + 1], h)

\* onAudioError: a notification, then closeConnectionCallback.
onAudioError(w, h) ==
    onCloseConnection([w EXCEPT !.hs[h].errored = TRUE], h)

\* onVoiceStatusChange without the close of the connection.
onVoiceStatusChange_NoClose(w, h, status) ==
    checkAndUpdatePlayerState(w, h, 0)

onVoiceStatusChange(w, h, status) ==
    LET w1 == IF status \in {"disconnected", "destroyed"} THEN onCloseConnection(w, h) ELSE w
    IN checkAndUpdatePlayerState(w1, h, 0)

\* addToQueue with unshift in place of push.
addToQueue_Front(w, h, item, o) ==
    checkAndUpdatePlayerState(
        [w EXCEPT !.hs[h].playQueue = <<item>> \o @,
                  !.hs[h].enqueued = Append(@, item.id),
                  !.hs[h].stopDone = FALSE, !.hs[h].skipPre = FALSE], h, o)

addToQueue(w, h, item, o) ==
    checkAndUpdatePlayerState(
        [w EXCEPT !.hs[h].playQueue = Append(@, item),
                  !.hs[h].enqueued = Append(@, item.id),
                  !.hs[h].stopDone = FALSE, !.hs[h].skipPre = FALSE], h, o)

\* addItemsToQueue is called by the play command but is not part of the player
\* under src/: it is taken to enqueue the resolved items and reconcile, as
\* addToQueue does for one item.  items is empty or holds one item.
addItemsToQueue(w, h, items, o) ==
    IF items = <<>> THEN checkAndUpdatePlayerState(w, h, o)
    ELSE addToQueue(w, h, items[1], o)

\* ------------------------------------------------- the registry (audio.ts)
\* getGuildAudioCommandHandler, lines 163-170: the handler registered for g.
getGuildAudioCommandHandler(w, g) == w.reg[g]

\* getGuildAudioCommandHandler, lines 172-176: no handler is registered, the
\* command joins the voice channel and waits for the connection to be ready.
\* racedWith remembers a command of the same guild that is waiting likewise.
Joining(w, g) ==
    {d \in 1..Len(w.cs) : w.cs[d].guildId = g /\ w.cs[d].pc = "ejoin"}

BeginJoin(w, c, pc) ==
    LET others == Joining(w, w.cs[c].guildId) \ {c}
    IN [w EXCEPT !.cs[c].pc = pc,
                 !.cs[c].racedWith =
                     IF others = {} THEN 0
                     ELSE CHOOSE d \in others : \A e \in others : d <= e]

\* getGuildAudioCommandHandler, lines 208-218: the connection is ready, a handler
\* and its player are constructed and registered.
RegisterNewHandler(w, g) ==
    LET h == Len(w.hs) + 1
    IN [w EXCEPT !.hs = Append(@, NewHandler(g)),
                 !.reg[g] = h,
                 !.over = @ \/ h > MaxHandlers]

\* The same when connection.subscribe returns nothing because the connection
\* has been destroyed meanwhile: the player's constructor calls the close
\* callback and returns (channel-audio-player.ts, lines 48-53), the handler's
\* constructor catches nothing, channelAudioPlayer is set and the handler is
\* registered.
RegisterUnsubscribedHandler(w, g) ==
    LET h == Len(w.hs) + 1
        w1 == [w EXCEPT !.hs = Append(@, [NewHandler(g) EXCEPT !.conn = "destroyed"]),
                        !.over = @ \/ h > MaxHandlers]
        w2 == onCloseConnection(w1, h)
    IN [w2 EXCEPT !.reg[g] = h]

\* ------------------------------------------- the command closures (audio.ts)
\* The closure of command c once it holds the handler t.  struck records that a
\* stop or skip ran while a reconciliation of t was suspended in the resolution
\* of the item to play.
RunBody(w, c, t) ==
    LET cmd == w.cs[c]
        p == w.hs[t]
        resolving == \E k \in w.ks : k.h = t /\ k.at \in {"first", "child"}
        w0 == [w EXCEPT !.cs[c].target = t,
                        !.hs[t].struck = @ \/ (resolving /\ cmd.kind \in {"stop", "skip", "skiplist"})]
        done(x) == [x EXCEPT !.cs[c].pc = "done"]
    IN
    CASE cmd.kind = "play" ->
            IF cmd.url = "invalid"
            THEN done([w0 EXCEPT !.reg[p.guildId] = NoHandler])
            ELSE IF cmd.url = "other" THEN done(w0)
            ELSE [w0 EXCEPT !.cs[c].pc = "resolve"]
      [] cmd.kind = "stop" ->
            done([stop(w0, t) EXCEPT !.hs[t].stopDone = TRUE])
      [] cmd.kind = "skip" ->
            done([skip(w0, t, TRUE) EXCEPT !.hs[t].skipPre =
                     /\ p.status = "Playing" /\ p.currentItem # NoItem
                     /\ ~isPlaylist(p.currentItem) /\ Len(p.playQueue) = 0])
      [] cmd.kind = "skiplist" ->
            done([skip(w0, t, TRUE) EXCEPT !.hs[t].skippedList =
                     IF /\ p.status = "Playing" /\ isPlaylist(p.currentItem)
                        /\ p.currentItemChild # NoChild
                     THEN p.currentItem.id ELSE 0])
      [] cmd.kind = "resume" ->
            done([resume(w0, t) EXCEPT !.hs[t].resumed = (p.status = "Paused")])
      [] cmd.kind = "leave" -> done(onCloseConnection(stop(w0, t), t))
      [] OTHER -> done(w0)

\* The closure starts by asking the registry for the guild's handler again.
StartBody(w, c) ==
    LET t == getGuildAudioCommandHandler(w, w.cs[c].guildId)
    IN IF t # NoHandler THEN RunBody(w, c, t) ELSE BeginJoin(w, c, "bjoin")

\* ------------------------------------------------------ the serializer
\* commandQueue.pop() in place of shift(): the newest closure.
ShiftIndex_Last(queue) == Len(queue)

\* commandQueue.shift() takes the oldest closure.
ShiftIndex(queue) == 1

RemoveAt(queue, i) == [j \in 1..(Len(queue) - 1) |-> IF j < i THEN queue[j] ELSE queue[j + 1]]

\* The while loop of addCommandToQueue, from a point where no closure runs: it
\* runs closures until one is suspended or the queue is empty.
\* (The state after a closure is bound by a set constructor so that it is
\* computed once.)
RECURSIVE Drain(_, _)
Drain(w, h) ==
    LET queue == w.hs[h].commandQueue IN
    IF Len(queue) = 0 THEN [w EXCEPT !.hs[h].isCommandRunning = FALSE]
    ELSE LET i == ShiftIndex(queue)
             c == queue[i]
             w1 == [w EXCEPT !.hs[h].commandQueue = RemoveAt(queue, i),
                             !.hs[h].started = Append(@, c)]
         IN CHOOSE w3 \in {IF w2.cs[c].pc = "done" THEN Drain(w2, h) ELSE w2 :
                               w2 \in {StartBody(v, c) : v \in {w1}}} : TRUE

\* addCommandToQueue without the isCommandRunning test: every call drains.
addCommandToQueue_NoGuard(w, h, c) ==
    LET w1 == [w EXCEPT !.hs[h].commandQueue = Append(@, c),
                        !.hs[h].submitted = Append(@, c),
                        !.cs[c].q = h, !.cs[c].pc = "queued"]
    IN Drain([w1 EXCEPT !.hs[h].isCommandRunning = TRUE], h)

addCommandToQueue(w, h, c) ==
    LET w1 == [w EXCEPT !.hs[h].commandQueue = Append(@, c),
                        !.hs[h].submitted = Append(@, c),
                        !.cs[c].q = h, !.cs[c].pc = "queued"]
    IN IF ~w.hs[h].isCommandRunning
       THEN Drain([w1 EXCEPT !.hs[h].isCommandRunning = TRUE], h)
       ELSE [w1 EXCEPT !.cs[c].waited = TRUE]

\* The drainer returning after the closure it awaited, without looping.
Complete_NoLoop(w, c) ==
    [w EXCEPT !.cs[c].pc = "done", !.hs[w.cs[c].q].isCommandRunning = FALSE]

\* The closure of c has returned or thrown: the loop of its drainer goes on.
Complete(w, c) ==
    Drain([w EXCEPT !.cs[c].pc = "done"], w.cs[c].q)

\* The rejection of c's closure leaving addCommandToQueue uncaught.
Reject_Uncaught(w, c) ==
    [w EXCEPT !.cs[c].pc = "done", !.cs[c].threw = TRUE]

\* The closure of c rejects: the try/catch around await currentCommand() logs
\* the error and the loop goes on.
Reject(w, c) ==
    Complete([w EXCEPT !.cs[c].threw = TRUE], c)

Settle(w, o) == IF o = 0 THEN w ELSE Complete(w, o)

\* ------------------------------------------------------ execute (audio.ts)
\* execute once it holds the handler h: playing reads the player, the others
\* submit their closure.
GotHandler(w, c, h) ==
    LET w1 == [w EXCEPT !.cs[c].got = h]
    IN IF w.cs[c].kind = "playing" THEN [w1 EXCEPT !.cs[c].pc = "done"]
       ELSE addCommandToQueue(w1, h, c)

\* pause.execute builds its closure and never submits it (lines 450-468).
execute(w, c) ==
    LET cmd == w.cs[c]
        h == getGuildAudioCommandHandler(w, cmd.guildId)
    IN IF cmd.kind = "pause" THEN [w EXCEPT !.cs[c].pc = "done"]
       ELSE IF h # NoHandler THEN GotHandler(w, c, h)
       ELSE BeginJoin(w, c, "ejoin")

\* checkAndUpdatePlayerState resumes from the createFromUrl it awaited.
ResumeReconcile(w, k, ok) ==
    LET h == k.h
        w0 == [w EXCEPT !.ks = @ \ {k},
                        !.hs[h].struck = @ /\ k.at = "prefetch"]
    IN
    IF ~ok
    THEN Settle([w0 EXCEPT !.hs[h].failed = IF k.at = "prefetch" THEN @ ELSE k.child],
                k.owner)
    ELSE IF k.at = "prefetch"
    THEN Settle([w0 EXCEPT !.hs[h].nextItemChild = k.child], k.owner)
    ELSE
      LET w1 == IF k.at = "child"
                THEN [w0 EXCEPT !.hs[h].currentItemChild = k.child,
                                !.hs[h].nextItemChild = NoChild]
                ELSE [w0 EXCEPT !.hs[h].currentItemChild = k.child]
          p == w1.hs[h]
      IN IF p.currentItem = NoItem THEN Settle(w1, k.owner)
         ELSE LET w2 == playAudio(w1, h)
                  nidx == IF k.at = "child" THEN p.playlistIndex + 1 ELSE 1
              IN IF nidx < playlistItemCount(p.currentItem)
                 THEN Prefetch(w2, h, k.owner, nidx)
                 ELSE Settle(w2, k.owner)

\* ------------------------------------------------------------ the actions
Init ==
    /\ GuildAudioCommandHandlers = [g \in Guilds |-> NoHandler]
    /\ handlers = <<>>
    /\ commands = <<>>
    /\ pending = {}

\* A user issues a slash command; execute runs up to its first suspension.
ExecuteIn(limit, kind, g, url) ==
    /\ Len(commands) < limit
    /\ LET c == Len(commands) + 1
           w == [World EXCEPT !.cs = Append(@, NewCommand(kind, g, url, World))]
       IN Commit(execute(w, c))

Execute(kind, g, url) == ExecuteIn(MaxCommands, kind, g, url)

\* The voice connection a command waits for becomes ready.
JoinReady(c) ==
    /\ commands[c].pc \in {"ejoin", "bjoin"}
    /\ \E w \in {RegisterNewHandler(World, commands[c].guildId)} :
          LET h == Len(w.hs)
          IN IF commands[c].pc = "ejoin"
             THEN Commit(GotHandler(w, c, h))
             ELSE \E w1 \in {RunBody(w, c, h)} :
                      Commit(IF w1.cs[c].pc = "done" THEN Complete(w1, c) ELSE w1)

\* The connection becomes ready and is destroyed before the player subscribes.
JoinUnsubscribed(c) ==
    /\ commands[c].pc \in {"ejoin", "bjoin"}
    /\ \E w \in {RegisterUnsubscribedHandler(World, commands[c].guildId)} :
          LET h == Len(w.hs)
          IN IF commands[c].pc = "ejoin"
             THEN Commit(GotHandler(w, c, h))
             ELSE \E w1 \in {RunBody(w, c, h)} :
                      Commit(IF w1.cs[c].pc = "done" THEN Complete(w1, c) ELSE w1)

\* getGuildAudioCommandHandler whose failed wait registers a handler all the same.
FailJoin_Registers(w, c) ==
    LET w1 == RegisterNewHandler([w EXCEPT !.cs[c].joinFailed = TRUE], w.cs[c].guildId)
    IN IF w.cs[c].pc = "ejoin" THEN [w1 EXCEPT !.cs[c].pc = "done"] ELSE Reject(w1, c)

\* getGuildAudioCommandHandler, lines 192-206: the wait for the connection
\* rejects and the function throws before it constructs a handler.  execute
\* catches it; inside a closure the drain loop catches it.
FailJoin(w, c) ==
    LET w1 == [w EXCEPT !.cs[c].joinFailed = TRUE]
    IN IF w.cs[c].pc = "ejoin" THEN [w1 EXCEPT !.cs[c].pc = "done"] ELSE Reject(w1, c)

\* The connection is not ready within 15 s.
JoinFail(c) ==
    /\ commands[c].pc \in {"ejoin", "bjoin"}
    /\ Commit(FailJoin(World, c))

\* createFromUrl of a play closure returns: a track (n = 0), a playlist of n
\* members, or nothing (n = -1, it failed).
ResolveDone(c, n) ==
    /\ commands[c].pc = "resolve"
    /\ \/ n = -1
       \/ commands[c].url = "track" /\ n = 0
       \/ commands[c].url = "list" /\ n > 0
    /\ LET items == IF n = -1 THEN <<>> ELSE <<[id |-> c, n |-> n]>>
       IN \E w1 \in {addItemsToQueue(World, commands[c].target, items, c)} :
              Commit(IF \E k \in w1.ks : k.owner = c
                     THEN [w1 EXCEPT !.cs[c].pc = "reconcile"]
                     ELSE Complete(w1, c))

\* A resolution awaited by a reconciliation returns (ok) or throws.
Resume(k, ok) ==
    /\ k \in pending
    /\ Commit(ResumeReconcile(World, k, ok))

\* The player reports Playing: the stream became readable.
PlayerPlaying(h) ==
    /\ handlers[h].status = "Buffering"
    /\ Commit(onAudioStatusChange([World EXCEPT !.hs[h].status = "Playing"], h, "Playing"))

\* The player reports Idle: the track ended, or stop() had been called.
PlayerIdle(h) ==
    /\ \/ handlers[h].status = "Playing"
       \/ handlers[h].status # "Idle" /\ handlers[h].stopping
    /\ Commit(onAudioStatusChange([World EXCEPT !.hs[h].status = "Idle",
                                                !.hs[h].stopping = FALSE], h, "Idle"))

\* The library pauses a Playing player by itself when its connection cannot
\* take audio, and lets it play again afterwards.
PlayerAutoPaused(h) ==
    /\ handlers[h].status = "Playing"
    /\ Commit(onAudioStatusChange([World EXCEPT !.hs[h].status = "AutoPaused"], h, "AutoPaused"))

PlayerAutoResumed(h) ==
    /\ handlers[h].status = "AutoPaused"
    /\ Commit(onAudioStatusChange([World EXCEPT !.hs[h].status = "Playing"], h, "Playing"))

\* The stream of the resource being played fails: the player emits error, then
\* turns Idle.
PlayerError(h) ==
    /\ handlers[h].status \in {"Buffering", "Playing", "Paused"}
    /\ \E w1 \in {onAudioError(World, h)} :
           Commit(onAudioStatusChange([w1 EXCEPT !.hs[h].status = "Idle",
                                                 !.hs[h].stopping = FALSE], h, "Idle"))

\* ChannelAudioPlayer.pause() called on the player itself.
Pause(h) ==
    /\ handlers[h].status = "Playing"
    /\ Commit(pause(World, h))

\* A scheduled inactivity timeout fires: the runtime drops it and runs its
\* callback (setInactivityTimeout, lines 131-135).
TimerFire(h, t) ==
    /\ t \in handlers[h].timers
    /\ Commit(onInactivityTimeout([World EXCEPT !.hs[h].timers = @ \ {t}], h))

\* The library reports the voice connection disconnected or destroyed.
ConnectionLost(h, status) ==
    /\ handlers[h].conn = "ready"
    /\ Commit(onVoiceStatusChange([World EXCEPT !.hs[h].conn = status], h, status))

Cmds == 1..Len(commands)
Hs == 1..Len(handlers)

Next ==
    \/ \E kind \in Kinds \ {"play"}, g \in Guilds : Execute(kind, g, "-")
    \/ \E g \in Guilds, url \in Urls : Execute("play", g, url)
    \/ \E c \in Cmds : JoinReady(c)
    \/ \E c \in Cmds : JoinFail(c)
    \/ \E c \in Cmds : JoinUnsubscribed(c)
    \/ \E c \in Cmds, n \in -1..MaxPlaylistLen : ResolveDone(c, n)
    \/ \E k \in pending, ok \in BOOLEAN : Resume(k, ok)
    \/ \E h \in Hs : PlayerPlaying(h)
    \/ \E h \in Hs : PlayerIdle(h)
    \/ \E h \in Hs : PlayerError(h)
    \/ \E h \in Hs : \E t \in handlers[h].timers : TimerFire(h, t)
    \/ \E h \in Hs, status \in {"disconnected", "destroyed"} : ConnectionLost(h, status)

Spec == Init /\ [][Next]_vars

\* The serializer under more commands: one guild, the commands that suspend
\* (play of a track), fail validation, stop or leave, and every event.
ExecuteSerial(kind, url) == ExecuteIn(MaxSerial, kind, "g1", url)

NextSerial ==
    \/ \E kind \in {"stop", "leave"} : ExecuteSerial(kind, "-")
    \/ \E url \in {"invalid", "track"} : ExecuteSerial("play", url)
    \/ \E c \in Cmds : JoinReady(c)
    \/ \E c \in Cmds : JoinFail(c)
    \/ \E c \in Cmds, n \in {-1, 0} : ResolveDone(c, n)
    \/ \E h \in Hs : PlayerPlaying(h)
    \/ \E h \in Hs : PlayerIdle(h)
    \/ \E h \in Hs : \E t \in handlers[h].timers : TimerFire(h, t)
    \/ \E h \in Hs, status \in {"disconnected", "destroyed"} : ConnectionLost(h, status)

SpecSerial == Init /\ [][NextSerial]_vars

\* What a suspended command waits for arrives: the voice connection becomes
\* ready or its 15 s wait times out, and createFromUrl (yt-dlp, 30 s timeout)
\* returns or throws.
CommandWakes(c) ==
    /\ c \in Cmds
    /\ \/ JoinReady(c)
       \/ JoinFail(c)
       \/ \E n \in {-1, 0} : ResolveDone(c, n)

\* The serializer alone: the commands of NextSerial, what wakes them, and the
\* connection being lost under them; the player never leaves Buffering.
NextDrain ==
    \/ \E kind \in {"stop", "leave"} : ExecuteSerial(kind, "-")
    \/ \E url \in {"invalid", "track"} : ExecuteSerial("play", url)
    \/ \E c \in Cmds : JoinReady(c)
    \/ \E c \in Cmds : JoinFail(c)
    \/ \E c \in Cmds, n \in {-1, 0} : ResolveDone(c, n)
    \/ \E h \in Hs, status \in {"disconnected", "destroyed"} : ConnectionLost(h, status)

SpecDrainFair ==
    /\ Init /\ [][NextDrain]_vars
    /\ \A c \in 1..MaxSerial : WF_vars(CommandWakes(c))

\* Enqueues of single tracks and track ends only.
NextFifo ==
    \/ ExecuteSerial("play", "track")
    \/ \E c \in Cmds : JoinReady(c)
    \/ \E c \in Cmds, n \in {-1, 0} : ResolveDone(c, n)
    \/ \E h \in Hs : PlayerPlaying(h)
    \/ \E h \in Hs : PlayerIdle(h)

SpecFifo == Init /\ [][NextFifo]_vars

\* Playlists played to their end: enqueues of playlists of up to MaxMembers
\* members on one guild, resolutions that succeed, and the player's events.
NextList ==
    \/ ExecuteIn(MaxCommands, "play", "g1", "list")
    \/ \E c \in Cmds : JoinReady(c)
    \/ \E c \in Cmds, n \in 1..MaxMembers : ResolveDone(c, n)
    \/ \E k \in pending : Resume(k, TRUE)
    \/ \E h \in Hs : PlayerPlaying(h)
    \/ \E h \in Hs : PlayerIdle(h)

SpecList == Init /\ [][NextList]_vars

\* The transient signals of the player: enqueues of tracks and playlists on one
\* guild, the stop command, and the player's events with AutoPaused among them.
NextSignal ==
    \/ \E url \in {"track", "list"} : ExecuteIn(MaxCommands, "play", "g1", url)
    \/ ExecuteIn(MaxCommands, "stop", "g1", "-")
    \/ \E c \in Cmds : JoinReady(c)
    \/ \E c \in Cmds, n \in 0..MaxPlaylistLen : ResolveDone(c, n)
    \/ \E k \in pending : Resume(k, TRUE)
    \/ \E h \in Hs : PlayerPlaying(h)
    \/ \E h \in Hs : PlayerIdle(h)
    \/ \E h \in Hs : PlayerAutoPaused(h)
    \/ \E h \in Hs : PlayerAutoResumed(h)

SpecSignal == Init /\ [][NextSignal]_vars

\* The player paused by a call of its pause(): the play, resume and stop
\* commands on one guild, the player's and the connection's events and the
\* inactivity timer.
NextPause ==
    \/ ExecuteSerial("play", "track")
    \/ ExecuteSerial("resume", "-")
    \/ ExecuteSerial("stop", "-")
    \/ \E c \in Cmds : JoinReady(c)
    \/ \E c \in Cmds, n \in {-1, 0} : ResolveDone(c, n)
    \/ \E h \in Hs : PlayerPlaying(h)
    \/ \E h \in Hs : PlayerIdle(h)
    \/ \E h \in Hs : Pause(h)
    \/ \E h \in Hs : \E t \in handlers[h].timers : TimerFire(h, t)
    \/ \E h \in Hs, status \in {"disconnected", "destroyed"} : ConnectionLost(h, status)

SpecPause == Init /\ [][NextPause]_vars

\* ------------------------------------------------------------ the claims
IsPrefix(s, t) == Len(s) <= Len(t) /\ \A i \in 1..Len(s) : s[i] = t[i]

\* The closures of h's commandQueue that have started and not completed.
Executing(h) ==
    {c \in Cmds : commands[c].q = h /\ commands[c].pc \in {"bjoin", "resolve", "reconcile"}}

\* C1: for one handler, at most one closure submitted through addCommandToQueue
\* has started and not completed, whatever arrives while it is suspended.
C1_AtMostOneBodyExecuting ==
    \A h \in Hs : Cardinality(Executing(h)) <= 1

\* A closure is suspended at an await while a later submission waits in the queue.
C1_Witness ==
    \E h \in Hs : Cardinality(Executing(h)) = 1 /\ Len(handlers[h].commandQueue) >= 1

Live(h) == handlers[h].conn = "ready"

\* C2: at most one live (not destroyed) session per guild.
C2_OneLiveSessionPerGuild ==
    \A h1, h2 \in Hs :
        h1 # h2 /\ handlers[h1].guildId = handlers[h2].guildId => ~(Live(h1) /\ Live(h2))

\* C3: two commands that look a guild's session up while none is registered get
\* the same session: the second gets the one the first created.
C3_ConcurrentLookupsShareOneSession ==
    \A c \in Cmds :
        LET d == commands[c].racedWith IN
        (d # 0 /\ commands[c].got # NoHandler /\ commands[d].got # NoHandler)
            => commands[c].got = commands[d].got

SessionState(p) ==
    <<p.playQueue, p.currentItem, p.currentItemChild, p.nextItemChild, p.playlistIndex>>

\* The closures suspended while working on the player of h.
SuspendedOn(h) ==
    {c \in Cmds : commands[c].target = h /\ commands[c].pc \in {"resolve", "reconcile"}}

\* A step no command takes: no command moves and no reconciliation awaited by a
\* command resumes.  Such a step is a player, connection or timer event, or the
\* resumption of a reconciliation an event handler started.
OutsideStep ==
    /\ commands' = commands
    /\ \A k \in pending : k.owner # 0 => k \in pending'

\* C4: while a serialized command is suspended, no step taken outside the
\* commands changes the session state.
C4_NoMutationOutsideSerializer ==
    [][\A h \in Hs :
          (SuspendedOn(h) # {} /\ OutsideStep)
              => SessionState(handlers'[h]) = SessionState(handlers[h])]_vars

\* C5: once a stop command has completed and the event it caused has been
\* processed, the queue is empty, nothing is current and the player is Idle.
C5_StopLeavesIdleAndEmpty ==
    \A h \in Hs :
        (/\ handlers[h].stopDone
         /\ ~handlers[h].stopping
         /\ \A k \in pending : k.h # h)
            => /\ handlers[h].playQueue = <<>>
               /\ handlers[h].currentItem = NoItem
               /\ handlers[h].currentItemChild = NoChild
               /\ handlers[h].status = "Idle"

\* C6: a skip issued while a single track plays and the queue is empty ends the
\* track: once processed, the player is Idle and nothing is current.
C6_SkipEndsSingleTrack ==
    \A h \in Hs :
        (handlers[h].skipPre /\ ~handlers[h].stopping)
            => handlers[h].status = "Idle" /\ handlers[h].currentItem = NoItem

\* C7: after skiplist was issued while a member of a playlist was playing, no
\* member of that playlist is played.
C7_SkiplistDropsPlaylist ==
    \A h \in Hs :
        (/\ handlers[h].skippedList # 0
         /\ handlers[h].status \in {"Buffering", "Playing"}
         /\ ~handlers[h].stopping)
            => handlers[h].currentItem.id # handlers[h].skippedList

\* The commands that take a step: issued by it, or at another place after it.
Stepped ==
    {c \in 1..Len(commands') : c > Len(commands) \/ commands'[c].pc # commands[c].pc}

\* C8: a play command whose url fails validation opens no voice connection,
\* creates no session and leaves the registry as it was.
C8_InvalidPlayTouchesNothing ==
    [][\A c \in Stepped :
          (commands'[c].kind = "play" /\ commands'[c].url = "invalid" /\ Stepped = {c})
              => /\ commands'[c].pc \notin {"ejoin", "bjoin"}
                 /\ Len(handlers') = Len(handlers)
                 /\ GuildAudioCommandHandlers' = GuildAudioCommandHandlers]_vars

\* C9: the items that become current are, in order, the first items enqueued.
C9_FifoPlayOrder ==
    \A h \in Hs : IsPrefix(handlers[h].becameCurrent, handlers[h].enqueued)

\* The second item enqueued became current while a third one waits.
C9_Witness ==
    \E h \in Hs : Len(handlers[h].becameCurrent) >= 2 /\ Len(handlers[h].playQueue) >= 1

\* C10: the closures of a handler start in the order of their submission, each
\* after the one before it has completed.
C10_FifoCommandOrder ==
    \A h \in Hs :
        /\ IsPrefix(handlers[h].started, handlers[h].submitted)
        /\ \A i \in 1..(Len(handlers[h].started) - 1) :
               commands[handlers[h].started[i]].pc = "done"

\* The second closure submitted runs, after the first, while a third one waits.
C10_Witness ==
    \E h \in Hs :
        /\ Len(handlers[h].started) >= 2
        /\ Cardinality(Executing(h)) = 1
        /\ Len(handlers[h].commandQueue) >= 1

\* Every closure submitted to h is, once, either started or waiting in the queue,
\* and closures wait only while one is running.
NoSubmissionLost(h) ==
    /\ handlers[h].submitted = handlers[h].started \o handlers[h].commandQueue
    /\ \A i, j \in 1..Len(handlers[h].submitted) :
           i # j => handlers[h].submitted[i] # handlers[h].submitted[j]
    /\ Len(handlers[h].commandQueue) > 0 => Executing(h) # {}

\* C11: every submitted command is executed exactly once: none is lost or left
\* waiting in commandQueue, and each one runs to completion when the bodies
\* before it complete.
C11_EverySubmissionRunsOnce ==
    /\ [](\A h \in Hs : NoSubmissionLost(h))
    /\ \A c \in 1..MaxSerial :
           (c \in Cmds /\ commands[c].pc = "queued")
               ~> (c \in Cmds /\ commands[c].pc = "done")

\* A closure submitted while another one was running has run to completion
\* and the drainer has left.
C11_Witness ==
    \E c \in Cmds :
        /\ commands[c].waited /\ commands[c].pc = "done"
        /\ ~handlers[commands[c].q].isCommandRunning

\* C12: a closure that throws does not stop the drain: whenever no closure of a
\* handler is running, none is waiting and isCommandRunning is false.
C12_ThrowDoesNotAbortDrain ==
    \A h \in Hs :
        Executing(h) = {} =>
            /\ handlers[h].commandQueue = <<>>
            /\ ~handlers[h].isCommandRunning
            /\ \A c \in Cmds : commands[c].q = h => commands[c].pc = "done"

\* A closure threw, the one queued behind it ran, and the drainer has left.
C12_Witness ==
    \E c, d \in Cmds :
        /\ commands[c].threw /\ commands[d].waited
        /\ commands[c].q = commands[d].q /\ c < d
        /\ commands[d].pc = "done"
        /\ ~handlers[commands[c].q].isCommandRunning

\* C13: an enqueue disarms the idle timer: on a live session no idle timer is
\* pending while an item is queued or current.
C13_EnqueueDisarmsIdleTimer ==
    \A h \in Hs :
        (Live(h) /\ handlers[h].currentTimeout = "idle")
            => handlers[h].playQueue = <<>> /\ handlers[h].currentItem = NoItem

\* No member of a current playlist is still to be played; playlistIndex is the
\* index of the member played last.
NoMemberLeft(p) ==
    \/ p.currentItem = NoItem
    \/ ~isPlaylist(p.currentItem)
    \/ p.playlistIndex + 1 >= playlistItemCount(p.currentItem)

\* C14: when the step that processes the player turning Idle ends with nothing
\* left to play and no reconciliation suspended, the session has no current
\* item and its idle timer is pending.
C14_TrackEndArmsIdleTimer ==
    [][\A h \in Hs :
          (/\ handlers[h].status # "Idle" /\ handlers'[h].status = "Idle"
           /\ handlers'[h].conn = "ready"
           /\ handlers'[h].playQueue = <<>>
           /\ NoMemberLeft(handlers'[h])
           /\ \A k \in pending' : k.h # h)
              => /\ handlers'[h].currentItem = NoItem
                 /\ handlers'[h].currentTimeout = "idle"]_vars

\* Nothing is in progress on h: the player has no status change to report, no
\* reconciliation is suspended and no command is inside its closure.
Quiescent(h) ==
    /\ ~handlers[h].stopping
    /\ \A k \in pending : k.h # h
    /\ \A c \in Cmds :
           commands[c].pc \in {"bjoin", "resolve", "reconcile"}
               => commands[c].target # h /\ commands[c].q # h

\* C15: queued work always starts: a quiescent session whose player is Idle and
\* whose connection is ready has an empty queue and no playlist member left.
C15_QueuedWorkStarts ==
    \A h \in Hs :
        (Quiescent(h) /\ handlers[h].status = "Idle" /\ handlers[h].conn = "ready")
            => handlers[h].playQueue = <<>> /\ NoMemberLeft(handlers[h])

\* C16: a player error ends the current track only: after the step that
\* handles it the session is live and registered as before.
C16_PlayerErrorKeepsSession ==
    [][\A h \in Hs :
          (~handlers[h].errored /\ handlers'[h].errored /\ handlers[h].conn = "ready")
              => /\ handlers'[h].conn = "ready"
                 /\ GuildAudioCommandHandlers' = GuildAudioCommandHandlers
                 /\ Len(handlers'[h].playQueue) >= Len(handlers[h].playQueue) - 1]_vars

\* C17: when the resolution of the item reconciliation has popped fails, the
\* reconciliation goes on: the step does not leave a ready session Idle with
\* work left and no resolution in flight.
C17_ResolutionFailureAdvances ==
    [][\A h \in Hs :
          (/\ handlers'[h].failed # handlers[h].failed
           /\ handlers'[h].conn = "ready"
           /\ handlers'[h].status = "Idle")
              => \/ \E k \in pending' : k.h = h
                 \/ handlers'[h].playQueue = <<>> /\ NoMemberLeft(handlers'[h])]_vars

\* C18: a pause command issued while the registered session is Playing, with no
\* command running on it, leaves the player Paused with the pause timer armed.
C18_PauseCommandPauses ==
    [][\A c \in Stepped :
          LET h == GuildAudioCommandHandlers[commands'[c].guildId] IN
          (/\ c > Len(commands) /\ commands'[c].kind = "pause"
           /\ h # NoHandler
           /\ handlers[h].status = "Playing" /\ ~handlers[h].stopping
           /\ handlers[h].conn = "ready" /\ ~handlers[h].isCommandRunning)
              => /\ handlers'[h].status = "Paused"
                 /\ handlers'[h].currentTimeout = "pause"]_vars

\* C19: the closure of a resume command that finds the player Paused leaves it
\* Playing with no timer pending, and no timer is pending while it plays.
C19_ResumePlaysAndDisarms ==
    /\ [][\A c \in Stepped :
             LET h == commands'[c].target IN
             (/\ commands'[c].kind = "resume" /\ commands'[c].pc = "done"
              /\ h # NoHandler /\ h \in Hs
              /\ handlers[h].status = "Paused" /\ Stepped = {c})
                 => /\ handlers'[h].status = "Playing"
                    /\ handlers'[h].currentTimeout = "none"]_vars
    /\ [](\A h \in Hs : handlers[h].status = "Playing" => handlers[h].currentTimeout = "none")

\* A resume command found the player Paused and the player plays.
C19_Witness ==
    \E h \in Hs : handlers[h].resumed /\ handlers[h].status = "Playing"

\* C20: a destroyed session has an empty queue, no pending timer and no entry
\* in the registry, in every later state.
C20_DestroyedStaysCleared ==
    \A h \in Hs :
        handlers[h].conn # "ready"
            => /\ handlers[h].playQueue = <<>>
               /\ handlers[h].currentTimeout = "none"
               /\ GuildAudioCommandHandlers[handlers[h].guildId] # h

\* C21: nothing of a destroyed session removes the session registered after it:
\* a step no command takes, that leaves the registered session of a guild live
\* while a destroyed session of that guild exists, leaves it registered.
C21_DestroyedSessionLeavesSuccessor ==
    [][\A g \in Guilds :
          LET h == GuildAudioCommandHandlers[g] IN
          (/\ h # NoHandler
           /\ handlers[h].conn = "ready" /\ handlers'[h].conn = "ready"
           /\ commands' = commands
           /\ \E d \in Hs : d # h /\ handlers[d].guildId = g /\ handlers[d].conn # "ready")
              => GuildAudioCommandHandlers'[g] = h]_vars

\* The status in which setInactivityTimeout arms a timeout of each kind.
ArmingStatus(type) == IF type = "idle" THEN "Idle" ELSE "Paused"

\* C22: when an inactivity timeout fires, the notice is emitted and the step
\* ends with the session's connection closed, the session cleared and no entry
\* of the registry holding it; a scheduled timeout exists only while the player
\* is in the status that armed it, so it fires only if that status lasted.
C22_TimeoutClosesSession ==
    /\ [][\A h \in 1..Len(handlers) :
            handlers'[h].notices # handlers[h].notices
                => /\ handlers'[h].notices = handlers[h].notices + 1
                   /\ handlers'[h].conn # "ready"
                   /\ handlers'[h].playQueue = <<>>
                   /\ handlers'[h].timers = {}
                   /\ handlers'[h].currentTimeout = "none"
                   /\ GuildAudioCommandHandlers'[handlers[h].guildId] # h]_vars
    /\ [](\A h \in Hs : \A t \in handlers[h].timers :
            handlers[h].status = ArmingStatus(t.type))

C22_Witness ==
    \E h \in Hs :
        /\ handlers[h].notices > 0
        /\ handlers[h].conn = "destroyed"
        /\ GuildAudioCommandHandlers[handlers[h].guildId] = NoHandler

\* C23: a change of the connection to disconnected or destroyed (a step that
\* closes the connection and is neither a command's, a timeout's nor a player
\* error's), whatever the player's status, ends with the session cleared, its
\* timeout cancelled and no entry of the registry holding it.
C23_ConnectionLossDestroys ==
    [][\A h \in 1..Len(handlers) :
            (/\ handlers[h].conn = "ready"
             /\ handlers'[h].conn \in {"disconnected", "destroyed"}
             /\ commands' = commands
             /\ handlers'[h].notices = handlers[h].notices
             /\ handlers'[h].errored = handlers[h].errored)
                => /\ handlers'[h].playQueue = <<>>
                   /\ handlers'[h].timers = {}
                   /\ handlers'[h].currentTimeout = "none"
                   /\ GuildAudioCommandHandlers'[handlers[h].guildId] # h]_vars

\* A session lost its connection while paused (then so in Idle and Playing).
C23_Witness ==
    \E h \in Hs :
        /\ handlers[h].conn = "disconnected"
        /\ handlers[h].status = "Paused"
        /\ handlers[h].notices = 0
        /\ ~handlers[h].errored
        /\ GuildAudioCommandHandlers[handlers[h].guildId] = NoHandler

C25_CommandDuringResolutionApplies ==
    [][\A k \in pending :
          (/\ k.at \in {"first", "child"}
           /\ k \notin pending'
           /\ handlers[k.h].struck)
              => ~(/\ handlers'[k.h].status = "Buffering"
                   /\ handlers'[k.h].currentItemChild = k.child)]_vars

\* What C26 compares of a session: the queue, the current item and the player.
SkipEffect(p) ==
    [playQueue |-> p.playQueue, currentItem |-> p.currentItem,
     currentItemChild |-> p.currentItemChild, status |-> p.status,
     stopping |-> p.stopping]

\* C26: when the current item is not a playlist, skip(false) has the same effect
\* on the queue, the current item and the player as skip(true), whatever the
\* queue holds.
C26_GroupSkipFallsBack ==
    \A h \in Hs :
        (handlers[h].currentItem = NoItem \/ ~isPlaylist(handlers[h].currentItem))
            => SkipEffect(skip(World, h, FALSE).hs[h]) = SkipEffect(skip(World, h, TRUE).hs[h])

\* A single track plays with items queued behind it, and the group skip stops it.
C26_Witness ==
    \E h \in Hs :
        /\ handlers[h].status = "Playing"
        /\ handlers[h].currentItem # NoItem
        /\ ~isPlaylist(handlers[h].currentItem)
        /\ Len(handlers[h].playQueue) > 0
        /\ ~handlers[h].stopping
        /\ skip(World, h, FALSE).hs[h].stopping

\* C27: when the connection a command waits for does not become ready,
\* getGuildAudioCommandHandler yields no session: the command holds no handler,
\* no handler is constructed and the registry is unchanged.
C27_FailedJoinYieldsNothing ==
    [][\A c \in 1..Len(commands) :
          (/\ ~commands[c].joinFailed
           /\ commands'[c].joinFailed
           /\ Stepped = {c})
              => /\ GuildAudioCommandHandlers' = GuildAudioCommandHandlers
                 /\ Len(handlers') = Len(handlers)
                 /\ commands'[c].pc = "done"
                 /\ commands'[c].got = IF commands[c].pc = "ejoin" THEN NoHandler ELSE commands[c].got
                 /\ commands'[c].target = NoHandler]_vars

\* The join of a command failed, in execute and in a closure, and the guild
\* has no session.
C27_Witness ==
    \E c \in Cmds :
        /\ commands[c].joinFailed
        /\ commands[c].target = NoHandler
        /\ GuildAudioCommandHandlers[commands[c].guildId] = NoHandler

\* C28: an entry leaves the registry only as part of the destruction of its
\* session: a step after which a guild has no entry has closed the connection
\* of the session the entry held.
C28_RemovedOnlyWhenDestroyed ==
    [][\A g \in Guilds :
          LET h == GuildAudioCommandHandlers[g] IN
          (h # NoHandler /\ GuildAudioCommandHandlers'[g] = NoHandler)
              => handlers'[h].conn # "ready"]_vars

\* All that belongs to guild g in a state: its registry entry, its sessions,
\* its commands and the resolutions its sessions wait for.
GuildState(g, reg, hs, cs, ks) ==
    [entry |-> reg[g],
     sessions |-> {<<h, hs[h]>> : h \in {i \in 1..Len(hs) : hs[i].guildId = g}},
     cmds |-> {<<c, cs[c]>> : c \in {i \in 1..Len(cs) : cs[i].guildId = g}},
     waits |-> {k \in ks : hs[k.h].guildId = g}]

\* C29: a command or event of one guild leaves the registry entry and the
\* session state of every other guild unchanged, and a command waits in a
\* commandQueue only behind a suspended command of its own guild.
C29_GuildsIndependent ==
    /\ [][\E g \in Guilds : \A o \in Guilds \ {g} :
             GuildState(o, GuildAudioCommandHandlers', handlers', commands', pending')
               = GuildState(o, GuildAudioCommandHandlers, handlers, commands, pending)]_vars
    /\ [](\A c \in Cmds :
            commands[c].pc = "queued"
                => \E d \in Executing(commands[c].q) :
                       d # c /\ commands[d].guildId = commands[c].guildId)

\* A command of one guild completed on a live session while an earlier command
\* of the other guild was suspended in its serializer.
C29_Witness ==
    \E c, d \in Cmds :
        /\ c < d
        /\ commands[c].guildId # commands[d].guildId
        /\ commands[c].pc \in {"bjoin", "resolve", "reconcile"}
        /\ commands[d].pc = "done"
        /\ commands[d].target # NoHandler
        /\ GuildAudioCommandHandlers[commands[c].guildId] # NoHandler

\* C30: a session has at most one pending inactivity timeout, the one its
\* currentTimeout field holds: arming replaces the earlier timeout, and a
\* replaced or cleared timeout is no longer scheduled, so it never fires.
C30_OnePendingTimeout ==
    \A h \in Hs :
        /\ Cardinality(handlers[h].timers) <= 1
        /\ handlers[h].timers \subseteq
               {[id |-> handlers[h].timeoutId, type |-> handlers[h].currentTimeout]}
        /\ handlers[h].currentTimeout # "none" => handlers[h].timers # {}

\* A timeout is pending that replaced an earlier one.
C30_Witness ==
    \E h \in Hs :
        /\ handlers[h].rearmed
        /\ handlers[h].timers = {[id |-> handlers[h].timeoutId, type |-> "idle"]}

\* C31: the prefetch of the next playlist member blocks nothing: once the
\* current member has been handed to the player, no command is still waiting
\* for a reconciliation that only awaits the prefetch.
C31_PrefetchDoesNotBlock ==
    \A k \in pending :
        k.at = "prefetch"
            => \/ k.owner = 0
               \/ commands[k.owner].pc = "done"

\* C32: whenever a member of a playlist is handed to the player or playing, it
\* is the member at position playlistIndex of the current playlist.
C32_ChildIsAtPlaylistIndex ==
    \A h \in Hs :
        (/\ handlers[h].status \in {"Buffering", "Playing"}
         /\ handlers[h].currentItem # NoItem
         /\ isPlaylist(handlers[h].currentItem)
         /\ handlers[h].currentItemChild # NoChild)
            => handlers[h].currentItemChild =
                   [id |-> handlers[h].currentItem.id, idx |-> handlers[h].playlistIndex]

\* C33: once the last member of the current playlist has finished and the
\* player rests Idle with no resolution in flight, the session no longer holds
\* that playlist as its current item.
C33_FinishedPlaylistReleased ==
    \A h \in Hs :
        (/\ handlers[h].status = "Idle"
         /\ ~\E k \in pending : k.h = h
         /\ handlers[h].currentItem # NoItem
         /\ isPlaylist(handlers[h].currentItem))
            => handlers[h].playlistIndex < playlistItemCount(handlers[h].currentItem)

\* C34: a Buffering or AutoPaused signal of the player only clears the
\* inactivity timeout: in every state the handler of such a signal does what
\* clearInactivityTimeout does and no more, and a step in which the player
\* turns AutoPaused leaves the queue, the current item, its child and
\* playlistIndex as they were and starts no resolution.
C34_TransientSignalOnlyClearsTimer ==
    /\ [](\A h \in Hs : \A s \in {"Buffering", "AutoPaused"} :
            \A w0 \in {[World EXCEPT !.hs[h].status = s]} :
                onAudioStatusChange(w0, h, s) = clearInactivityTimeout(w0, h))
    /\ [][\A h \in 1..Len(handlers) :
            (handlers[h].status # "AutoPaused" /\ handlers'[h].status = "AutoPaused")
                => /\ handlers'[h] = [handlers[h] EXCEPT !.status = "AutoPaused",
                                                         !.currentTimeout = "none",
                                                         !.timeoutId = 0,
                                                         !.timers = {}]
                   /\ pending' = pending
                   /\ commands' = commands
                   /\ GuildAudioCommandHandlers' = GuildAudioCommandHandlers]_vars

\* The player turned AutoPaused with work queued behind the item it plays.
C34_Witness ==
    \E h \in Hs :
        /\ handlers[h].status = "AutoPaused"
        /\ Len(handlers[h].playQueue) > 0

\* C35: while a reconciliation is suspended in the resolution of the item to
\* play, no other invocation of checkAndUpdatePlayerState pops a queue entry or
\* advances playlistIndex.
C35_OneReconciliationPerIdle ==
    [][\A h \in 1..Len(handlers) :
          \A k \in pending :
              (k.h = h /\ k.at \in {"first", "child"} /\ k \in pending')
                  => /\ handlers'[h].becameCurrent = handlers[h].becameCurrent
                     /\ handlers'[h].playlistIndex <= handlers[h].playlistIndex]_vars

\* C36: at any instant at most one command body is executing against a given
\* ChannelAudioPlayer, whichever commandQueue the body was started from.
C36_OneBodyPerPlayer ==
    \A h \in Hs : Cardinality(SuspendedOn(h)) <= 1

\* C37: every entry of the registry refers to a session that has not been
\* destroyed.
C37_RegisteredSessionsAreLive ==
    \A g \in Guilds :
        GuildAudioCommandHandlers[g] # NoHandler
            => handlers[GuildAudioCommandHandlers[g]].conn = "ready"

\* C38: between the steps of the event loop, a handler whose isCommandRunning
\* is false has an empty commandQueue, and isCommandRunning is true exactly
\* while a drain of the handler is suspended in a closure it started.
C38_RunningFlagMatchesDrain ==
    \A h \in Hs :
        /\ ~handlers[h].isCommandRunning => handlers[h].commandQueue = <<>>
        /\ handlers[h].isCommandRunning <=> Executing(h) # {}

\* A closure waits in the commandQueue of a handler whose drain is suspended.
C38_Witness ==
    \E h \in Hs :
        /\ handlers[h].isCommandRunning
        /\ Len(handlers[h].commandQueue) > 0
        /\ Cardinality(Executing(h)) = 1

\* C39: pause() on a player that is not Playing and resume() on a player that
\* is not Paused emit their notice and change nothing else: not the status,
\* the queue, the current item or the inactivity timeout.
C39_RefusedPauseResumeChangeNothing ==
    \A h \in Hs :
        /\ handlers[h].status # "Playing"
              => pause(World, h) = [World EXCEPT !.hs[h].refused = TRUE]
        /\ handlers[h].status # "Paused"
              => resume(World, h) = [World EXCEPT !.hs[h].refused = TRUE]

\* A resume command ran on an idle player whose idle timeout stays pending.
C39_Witness ==
    \E c \in Cmds :
        /\ commands[c].kind = "resume"
        /\ commands[c].pc = "done"
        /\ commands[c].target # NoHandler
        /\ handlers[commands[c].target].refused
        /\ handlers[commands[c].target].status = "Idle"
        /\ handlers[commands[c].target].currentTimeout = "idle"

====
